---- MODULE Spec2Model ----
(***************************************************************************)
(* SatelliteSimulation (visualize.py): the run loop, the widget handlers   *)
(* and the orbital calculations.                                           *)
(*                                                                         *)
(* Numbers.  The program computes in floating point; here every quantity   *)
(* is an integer in SI units: positions in m, velocities in m/s, time in   *)
(* s, so a(p)*dt is rounded to the nearest m/s.  The text fields hold      *)
(* whole numbers (km for the altitude, m/s for the velocity components).   *)
(* Specific energy is held in units of 1/2 J/kg, which makes 0.5*v**2      *)
(* exact.  Quotients whose dividend exceeds 31 bits are computed by long   *)
(* division, squared lengths in three limbs; a unit vector is held to      *)
(* 10^-5.                                                                  *)
(*                                                                         *)
(* Scheduling.  rate() is the only point where the loop yields, so the     *)
(* widget handlers run between two statements of the loop only at the      *)
(* rate() of line 384 (pc = "loop") and at the rate() calls of the         *)
(* explosion animation, line 352 (pc = "explosion").                       *)
(***************************************************************************)
EXTENDS Integers, Sequences, FiniteSets, TLC

\* ------------------------------------------------------------------ bounds
MaxSteps == 2          \* physics steps followed after one launch (Spec)
MaxFlightEdits == 1    \* edits of a field followed between a launch and the next reset
MaxFallSteps == 460    \* physics steps followed after one launch (SpecInfall)

\* --------------------------------------------------------------- constants
\* G * EARTH_MASS = 6.67430e-11 * 5.972e24 = 3.98589196e14 m^3/s^2, held in
\* units of 10^6 m^3/s^2
GM6 == 398589196
EARTH_RADIUS == 6371000
DEFAULT_ALTITUDE == 700000
DEFAULT_SPEED == 7300
TIME_STEP == 1
\* the "+-100" of the orbit-type test
ENERGY_BUFFER == 100

\* ------------------------------------------------------------- arithmetic
Abs(x) == IF x < 0 THEN -x ELSE x
Sign(x) == IF x < 0 THEN -1 ELSE IF x > 0 THEN 1 ELSE 0
Max2(a, b) == IF a >= b THEN a ELSE b

\* floor(n * 10^k / d) for n >= 0, d > 0, by long division
RECURSIVE LongDivStep(_, _, _, _)
LongDivStep(q, rem, d, k) ==
    IF k = 0 THEN q
    ELSE [a \in Int, b \in Int |-> LongDivStep(a, b, d, k - 1)]
            [q * 10 + (rem * 10) \div d, (rem * 10) % d]
LongDiv(n, d, k) == [a \in Int, b \in Int |-> LongDivStep(a \div b, a % b, b, k)][n, d]

\* floor(sqrt(n)) for 0 <= n < 2^31
RECURSIVE SqrtSearch(_, _, _)
SqrtSearch(n, lo, hi) ==
    IF lo = hi THEN lo
    ELSE [mid \in Int |-> IF mid * mid <= n THEN SqrtSearch(n, mid, hi)
                                            ELSE SqrtSearch(n, lo, mid - 1)]
            [(lo + hi + 1) \div 2]
sqrt(n) == [a \in Int |-> SqrtSearch(a, 0, 46340)][n]

\* vectors
vector(x, y, z) == <<x, y, z>>
VAdd(a, b) == <<a[1] + b[1], a[2] + b[2], a[3] + b[3]>>
VScale(a, k) == <<a[1] * k, a[2] * k, a[3] * k>>
Dot(a, b) == a[1] * b[1] + a[2] * b[2] + a[3] * b[3]
earth_pos == vector(0, 0, 0)
VSub(a, b) == <<a[1] - b[1], a[2] - b[2], a[3] - b[3]>>

\* x*x + y*y + z*z as three limbs of 14 bits (the sum does not fit 31 bits)
SumSq(p) ==
    LET h(i) == Abs(p[i]) \div 16384
        l(i) == Abs(p[i]) % 16384
        c0 == l(1) * l(1) + l(2) * l(2) + l(3) * l(3)
        c1 == 2 * h(1) * l(1) + 2 * h(2) * l(2) + 2 * h(3) * l(3) + c0 \div 16384
        c2 == h(1) * h(1) + h(2) * h(2) + h(3) * h(3) + c1 \div 16384
    IN <<c2, c1 % 16384, c0 % 16384>>
WideLeq(a, b) ==
    \/ a[1] < b[1]
    \/ a[1] = b[1] /\ a[2] < b[2]
    \/ a[1] = b[1] /\ a[2] = b[2] /\ a[3] <= b[3]

\* mag(p): the length of p, rounded up to a whole metre (exact on an axis), so
\* that mag(p) <= n is exact for a whole number n
RECURSIVE MagSearch(_, _, _)
MagSearch(S, lo, hi) ==
    IF lo = hi THEN lo
    ELSE [mid \in Int |-> IF WideLeq(S, SumSq(<<mid, 0, 0>>))
                          THEN MagSearch(S, lo, mid)
                          ELSE MagSearch(S, mid + 1, hi)]
            [(lo + hi) \div 2]
mag(p) ==
    [x \in Int, y \in Int, z \in Int |->
        MagSearch(SumSq(<<x, y, z>>), Max2(x, Max2(y, z)), x + y + z)]
      [Abs(p[1]), Abs(p[2]), Abs(p[3])]

\* p.norm(): the unit vector of p, in units of 10^-5; the zero vector for p = 0
norm(p) ==
    [m \in Int |-> IF m = 0 THEN vector(0, 0, 0)
                   ELSE [i \in 1..3 |-> Sign(p[i]) * LongDiv(Abs(p[i]), m, 5)]]
      [mag(p)]

\* G * EARTH_MASS / r and 2 * G * EARTH_MASS / r, in m^2/s^2, rounded down
GMOver(r) == LongDiv(GM6, r, 6)
TwoGMOver(r) == LongDiv(2 * GM6, r, 6)

\* ------------------------------------------------------------------ texts
\* the text of an input field: the numeral of a whole number, or some text
\* that float() rejects
Str(n) == [num |-> TRUE, val |-> n]
BadText == [num |-> FALSE, val |-> 0]
\* float(text): the number, or ValueError (ok = FALSE)
float(text) == IF text.num THEN [ok |-> TRUE, val |-> text.val]
                           ELSE [ok |-> FALSE, val |-> 0]
NoVector == [ok |-> FALSE, val |-> vector(0, 0, 0)]

AltitudeTexts == {Str(-5), Str(0), Str(700), BadText}
VelocityTexts == {Str(0), BadText}

VARIABLES
    sim,         \* the SatelliteSimulation object
    pc,          \* where run() is: "loop" (line 384) or "explosion" (line 352)
    nsteps,      \* update_physics calls since the last launch
    nedits,      \* edits of a field outside Idle since the last reset
    last,        \* the last operation, its argument and the object before it
    sinceCrash   \* progress since the last collision: crashed, reset, launched

vars == <<sim, pc, nsteps, nedits, last, sinceCrash>>

\* ------------------------------------------------------- orbital analysis
\* energy is in units of 1/2 J/kg throughout, so "energy < 100" reads
\* energy < 2 * ENERGY_BUFFER

\* the period, lines 234-243, with the buffered test of the orbit type
period_display_buffered(energy) ==
    IF energy < -2 * ENERGY_BUFFER
    THEN [text |-> "min", semi_major_axis |-> GM6 \div (-energy)]
    ELSE [text |-> "N/A (escape trajectory)", semi_major_axis |-> 0]

\* the period, lines 234-243.  semi_major_axis = -G*M / (2*energy), in units
\* of 10^6 m; the period is Kepler's strictly increasing function of it and is
\* reported by it
period_display(energy) ==
    IF energy < 0
    THEN [text |-> "min", semi_major_axis |-> GM6 \div (-energy)]
    ELSE [text |-> "N/A (escape trajectory)", semi_major_axis |-> 0]

\* the orbit type, lines 245-251, with an exact test against zero
orbit_type_exact(energy) ==
    IF energy < 0 THEN "Elliptical"
    ELSE IF energy = 0 THEN "Near-Parabolic"
    ELSE "Hyperbolic (Escape)"

\* the orbit type, lines 245-251
orbit_type(energy) ==
    IF energy < -2 * ENERGY_BUFFER THEN "Elliptical"
    ELSE IF energy < 2 * ENERGY_BUFFER THEN "Near-Parabolic"
    ELSE "Hyperbolic (Escape)"

\* update_orbital_info: the numbers that info_text is formatted from
orbital_info_text(pos, velocity) ==
    LET r == mag(pos)
        v == mag(velocity)
        altitude == r - EARTH_RADIUS
        energy == Dot(velocity, velocity) - TwoGMOver(r)
        v_circular == sqrt(GMOver(r))
        v_escape == sqrt(TwoGMOver(r))
    IN [altitude |-> altitude, r |-> r, v |-> v,
        v_circular |-> v_circular, v_ratio_circular |-> (100 * v) \div v_circular,
        v_escape |-> v_escape, v_ratio_escape |-> (100 * v) \div v_escape,
        orbit_type |-> orbit_type(energy), period_display |-> period_display(energy),
        energy |-> energy]

update_orbital_info(s, velocity) ==
    [s EXCEPT !.orbital_info = orbital_info_text(s.satellite_pos, velocity)]

\* ----------------------------------------------------------------- inputs
get_altitude_from_input(s) ==
    LET altitude_km == float(s.altitude_input)
    IN IF ~altitude_km.ok THEN [sim |-> s, ret |-> [ok |-> FALSE, val |-> 0]]
       ELSE IF altitude_km.val < 0
            THEN [sim |-> [s EXCEPT !.altitude_input = Str(0)],
                  ret |-> [ok |-> TRUE, val |-> 0]]
            ELSE [sim |-> s, ret |-> [ok |-> TRUE, val |-> altitude_km.val * 1000]]

\* get_velocity_from_inputs with unreadable text taken as 0
get_velocity_from_inputs_lenient(s) ==
    [ok |-> TRUE,
     val |-> vector(float(s.vx_input).val, float(s.vy_input).val, float(s.vz_input).val)]

get_velocity_from_inputs(s) ==
    LET vx == float(s.vx_input)
        vy == float(s.vy_input)
        vz == float(s.vz_input)
    IN IF vx.ok /\ vy.ok /\ vz.ok
       THEN [ok |-> TRUE, val |-> vector(vx.val, vy.val, vz.val)]
       ELSE NoVector

update_velocity_vector(s) ==
    LET velocity == get_velocity_from_inputs(s)
    IN IF ~velocity.ok THEN s
       ELSE update_orbital_info([s EXCEPT !.satellite_velocity = velocity.val],
                                velocity.val)

update_altitude(s) ==
    LET got == get_altitude_from_input(s)
        s1 == got.sim
        altitude == got.ret
        current_pos == s1.satellite_pos
        direction == IF mag(current_pos) > 0 THEN norm(current_pos)
                                             ELSE vector(100000, 0, 0)
        new_distance == EARTH_RADIUS + altitude.val
        \* direction * new_distance
        new_position == [i \in 1..3 |->
            Sign(direction[i]) * ((Abs(direction[i]) * (new_distance \div 1000)) \div 100)]
        circular_velocity == sqrt(GMOver(new_distance))
        current_velocity == get_velocity_from_inputs(s1)
        s2 == [s1 EXCEPT !.satellite_pos = new_position,
                         !.initial_position = new_position]
        s3 == IF current_velocity.ok
              THEN [s2 EXCEPT !.vy_input = Str(circular_velocity)]
              ELSE [s2 EXCEPT !.vx_input = Str(0),
                              !.vy_input = Str(circular_velocity),
                              !.vz_input = Str(0)]
    IN IF ~altitude.ok THEN s ELSE update_velocity_vector(s3)

\* --------------------------------------------------------------- commands
launch_satellite(s) ==
    LET velocity == get_velocity_from_inputs(s)
    IN IF s.running THEN s
       ELSE IF ~velocity.ok THEN s
       ELSE [s EXCEPT !.running = TRUE,
                      !.satellite_velocity = velocity.val,
                      !.status_label = [text |-> "Simulation running...",
                                        altitude |-> 0, speed |-> 0],
                      !.launch_button_disabled = TRUE,
                      !.reset_button_disabled = FALSE]

reset_simulation(s) ==
    LET got == get_altitude_from_input(s)
        s1 == got.sim
        altitude == IF got.ret.ok THEN got.ret.val ELSE DEFAULT_ALTITUDE
        new_distance == EARTH_RADIUS + altitude
        circular_velocity == sqrt(GMOver(new_distance))
        s2 == [s1 EXCEPT !.running = FALSE,
                         !.initial_position = vector(new_distance, 0, 0),
                         !.satellite_pos = vector(new_distance, 0, 0),
                         !.satellite_visible = TRUE,
                         !.satellite_velocity = vector(0, circular_velocity, 0),
                         !.vx_input = Str(0),
                         !.vy_input = Str(circular_velocity),
                         !.vz_input = Str(0)]
        s3 == update_velocity_vector(s2)
    IN [s3 EXCEPT !.launch_button_disabled = FALSE,
                  !.reset_button_disabled = TRUE,
                  !.status_label = [text |-> "Ready to launch",
                                    altitude |-> 0, speed |-> 0]]

\* ---------------------------------------------------------------- physics
\* check_collision with the surface itself left out
check_collision_open(s) == mag(VSub(s.satellite_pos, earth_pos)) < EARTH_RADIUS

check_collision(s) == mag(VSub(s.satellite_pos, earth_pos)) <= EARTH_RADIUS

\* G * EARTH_MASS / r_magnitude**2, in mm/s^2
Gravity(r_magnitude) == LongDiv(GMOver(r_magnitude), r_magnitude, 3)

\* the acceleration with the sign of the force reversed
acceleration_outward(r_vector) ==
    [g \in Int, n \in Seq(Int) |->
        [i \in 1..3 |-> Sign(n[i]) * (((g * Abs(n[i])) \div 100000 + 500) \div 1000)]]
      [Gravity(mag(r_vector)), norm(r_vector)]

\* -G * EARTH_MASS / r_magnitude**3 * r_vector, rounded to the nearest m/s^2
acceleration(r_vector) ==
    [g \in Int, n \in Seq(Int) |->
        [i \in 1..3 |-> -Sign(n[i]) * (((g * Abs(n[i])) \div 100000 + 500) \div 1000)]]
      [Gravity(mag(r_vector)), norm(r_vector)]

\* update_physics with the position moved by the velocity before the step
update_physics_explicit(s) ==
    LET r_vector == VSub(s.satellite_pos, earth_pos)
        r_magnitude == mag(r_vector)
        velocity == VAdd(s.satellite_velocity, VScale(acceleration(r_vector), TIME_STEP))
        pos == VAdd(s.satellite_pos, VScale(s.satellite_velocity, TIME_STEP))
    IN [s EXCEPT !.satellite_velocity = velocity,
                 !.satellite_pos = pos,
                 !.status_label = [text |-> "Altitude | Speed",
                                   altitude |-> r_magnitude - EARTH_RADIUS,
                                   speed |-> mag(velocity)]]

update_physics(s) ==
    LET r_vector == VSub(s.satellite_pos, earth_pos)
        r_magnitude == mag(r_vector)
    IN [velocity \in Seq(Int) |->
          [s EXCEPT !.satellite_velocity = velocity,
                    !.satellite_pos = VAdd(s.satellite_pos, VScale(velocity, TIME_STEP)),
                    !.status_label = [text |-> "Altitude | Speed",
                                      altitude |-> r_magnitude - EARTH_RADIUS,
                                      speed |-> mag(velocity)]]]
         [VAdd(s.satellite_velocity, VScale(acceleration(r_vector), TIME_STEP))]

\* ------------------------------------------------------------------ state
\* SimulationPhase, read off the object
Phase(s) == IF s.running THEN "Running"
            ELSE IF s.satellite_visible THEN "Idle"
            ELSE "Terminated-Collision"

\* __init__: the fields as created, then reset_simulation()
Created ==
    [running |-> FALSE,
     initial_position |-> vector(EARTH_RADIUS + DEFAULT_ALTITUDE, 0, 0),
     satellite_pos |-> vector(EARTH_RADIUS + DEFAULT_ALTITUDE, 0, 0),
     satellite_velocity |-> vector(0, 0, 0),
     satellite_visible |-> TRUE,
     altitude_input |-> Str(DEFAULT_ALTITUDE \div 1000),
     vx_input |-> Str(0), vy_input |-> Str(DEFAULT_SPEED), vz_input |-> Str(0),
     orbital_info |-> orbital_info_text(vector(EARTH_RADIUS + DEFAULT_ALTITUDE, 0, 0),
                                        vector(0, 0, 0)),
     status_label |-> [text |-> "Ready to launch", altitude |-> 0, speed |-> 0],
     launch_button_disabled |-> FALSE,
     reset_button_disabled |-> FALSE]

Init ==
    /\ sim = reset_simulation(Created)
    /\ pc = "loop"
    /\ nsteps = 0
    /\ nedits = 0
    /\ last = [op |-> "init", arg |-> BadText, pre |-> reset_simulation(Created)]
    /\ sinceCrash = "none"

\* ---------------------------------------------------------------- actions
Record(op, arg) == last' = [op |-> op, arg |-> arg, pre |-> sim]

\* run(), lines 384-387: a tick while not running
TickIdle ==
    /\ pc = "loop"
    /\ ~sim.running
    /\ Record("tick_idle", BadText)
    /\ UNCHANGED <<sim, pc, nsteps, nedits, sinceCrash>>

\* run(), lines 390-391: the collision check is true; create_explosion starts
TickCollision ==
    /\ pc = "loop"
    /\ sim.running
    /\ check_collision(sim)
    /\ pc' = "explosion"
    /\ sinceCrash' = "crashed"
    /\ Record("tick_collision", BadText)
    /\ UNCHANGED <<sim, nsteps, nedits>>

\* run(), lines 392-398: the animation is over
ExplosionEnd ==
    /\ pc = "explosion"
    /\ sim' = [sim EXCEPT !.satellite_visible = FALSE,
                          !.running = FALSE,
                          !.launch_button_disabled = TRUE,
                          !.reset_button_disabled = FALSE,
                          !.status_label = [text |-> "Satellite crashed! Press Reset to try again.",
                                            altitude |-> 0, speed |-> 0]]
    /\ pc' = "loop"
    /\ Record("explosion_end", BadText)
    /\ UNCHANGED <<nsteps, nedits, sinceCrash>>

\* the physics step taken without looking at the collision check
TickPhysics_unchecked(bound) ==
    /\ pc = "loop"
    /\ sim.running
    /\ nsteps < bound
    /\ sim' = update_physics(sim)
    /\ nsteps' = nsteps + 1
    /\ Record("tick_physics", BadText)
    /\ UNCHANGED <<pc, nedits, sinceCrash>>

\* run(), line 401: the collision check is false
TickPhysics(bound) ==
    /\ pc = "loop"
    /\ sim.running
    /\ ~check_collision(sim)
    /\ nsteps < bound
    /\ sim' = update_physics(sim)
    /\ nsteps' = nsteps + 1
    /\ Record("tick_physics", BadText)
    /\ UNCHANGED <<pc, nedits, sinceCrash>>

\* a press of the launch button (line 119); a disabled button calls nothing
ClickLaunch ==
    /\ sim' = IF sim.launch_button_disabled THEN sim ELSE launch_satellite(sim)
    /\ nsteps' = IF sim'.running /\ ~sim.running THEN 0 ELSE nsteps
    /\ sinceCrash' = IF sim'.running /\ ~sim.running /\ sinceCrash = "reset"
                     THEN "launched" ELSE sinceCrash
    /\ Record("launch", BadText)
    /\ UNCHANGED <<pc, nedits>>

\* a press of the reset button (line 121); a disabled button calls nothing
ClickReset ==
    /\ sim' = IF sim.reset_button_disabled THEN sim ELSE reset_simulation(sim)
    /\ sinceCrash' = IF ~sim.reset_button_disabled /\ sinceCrash = "crashed"
                     THEN "reset" ELSE sinceCrash
    /\ nedits' = IF sim.reset_button_disabled THEN nedits ELSE 0
    /\ Record("reset", BadText)
    /\ UNCHANGED <<pc, nsteps>>

\* the edits followed: all of them while Idle, MaxFlightEdits of them otherwise
CountEdit ==
    IF Phase(sim) = "Idle" THEN UNCHANGED nedits
    ELSE nedits < MaxFlightEdits /\ nedits' = nedits + 1

\* Enter in the altitude field with the text t
EditAltitude(t) ==
    /\ CountEdit
    /\ sim' = update_altitude([sim EXCEPT !.altitude_input = t])
    /\ Record("edit_altitude", t)
    /\ UNCHANGED <<pc, nsteps, sinceCrash>>

\* Enter in a velocity field with the text t
EditVelocity(field, t) ==
    /\ CountEdit
    /\ sim' = update_velocity_vector(
                  CASE field = "vx" -> [sim EXCEPT !.vx_input = t]
                    [] field = "vy" -> [sim EXCEPT !.vy_input = t]
                    [] field = "vz" -> [sim EXCEPT !.vz_input = t])
    /\ Record("edit_velocity", t)
    /\ UNCHANGED <<pc, nsteps, sinceCrash>>

Next ==
    \/ TickIdle
    \/ TickCollision
    \/ ExplosionEnd
    \/ TickPhysics(MaxSteps)
    \/ ClickLaunch
    \/ ClickReset
    \/ \E t \in AltitudeTexts : EditAltitude(t)
    \/ \E field \in {"vx", "vy", "vz"}, t \in VelocityTexts : EditVelocity(field, t)

Spec == Init /\ [][Next]_vars

\* ------------------------------------------------- the analysis on its own
\* the preview while Idle: edits of the fields only, over a wider set of texts
InfoAltitudeTexts == {Str(0), Str(335), Str(700), BadText}
InfoVxTexts == {Str(0), Str(244)}
InfoVyTexts == {Str(10615), Str(10903)}
InfoVzTexts == {Str(0), Str(36), Str(37), Str(38), BadText}

NextInfo ==
    \/ \E t \in InfoAltitudeTexts : EditAltitude(t)
    \/ \E t \in InfoVxTexts : EditVelocity("vx", t)
    \/ \E t \in InfoVyTexts : EditVelocity("vy", t)
    \/ \E t \in InfoVzTexts : EditVelocity("vz", t)

SpecInfo == Init /\ [][NextInfo]_vars

\* --------------------------------------------------------- radial infall
\* a launch with velocity (0, 0, 0) from a positive altitude, set up by edits
\* while the satellite has not been launched; after the launch only run() acts
FallAltitudeTexts == {Str(1), Str(30), Str(700)}

NotLaunched == Phase(sim) = "Idle" /\ sim.reset_button_disabled /\ pc = "loop"

LaunchAtRest ==
    /\ NotLaunched
    /\ sim.satellite_velocity = vector(0, 0, 0)
    /\ get_velocity_from_inputs(sim).ok
    /\ mag(sim.satellite_pos) > EARTH_RADIUS
    /\ ClickLaunch

RunLoop(bound) == TickIdle \/ TickCollision \/ ExplosionEnd \/ TickPhysics(bound)

NextInfall ==
    \/ NotLaunched /\ \E t \in FallAltitudeTexts : EditAltitude(t)
    \/ NotLaunched /\ \E field \in {"vx", "vy", "vz"} : EditVelocity(field, Str(0))
    \/ LaunchAtRest
    \/ TickIdle
    \/ TickCollision
    \/ ExplosionEnd
    \/ TickPhysics(MaxFallSteps)

\* run() is "while True": the loop never stops taking ticks
SpecInfall == Init /\ [][NextInfall]_vars /\ WF_vars(RunLoop(MaxFallSteps))

\* ----------------------------------------------------------------- claims
TickOps == {"tick_idle", "tick_collision", "tick_physics", "explosion_end"}
EditOps == {"edit_altitude", "edit_velocity"}
ZeroVector == vector(0, 0, 0)

\* C1: a tick that finds the collision check true does no physics update and
\* ends in Terminated-Collision, and update_physics runs again only after a
\* reset followed by a launch.
C1_CollisionStopsPhysics ==
    /\ last.op = "tick_physics" =>
          /\ last.pre.running
          /\ mag(last.pre.satellite_pos) > EARTH_RADIUS
          /\ sinceCrash \in {"none", "launched"}
    /\ last.op = "tick_collision" =>
          /\ sim.satellite_pos = last.pre.satellite_pos
          /\ sim.satellite_velocity = last.pre.satellite_velocity
    /\ last.op = "explosion_end" =>
          /\ ~sim.running
          /\ Phase(sim) = "Terminated-Collision"
          /\ sim.satellite_pos = last.pre.satellite_pos
          /\ sim.satellite_velocity = last.pre.satellite_velocity

C1_Witness ==
    /\ last.op = "tick_physics"
    /\ sinceCrash = "launched"

\* C2: the phase changes only by Idle -> Running on a launch, Running ->
\* Terminated-Collision on a tick whose collision check is true, and any
\* phase -> Idle on a reset; a launch while Running or Terminated-Collision
\* changes nothing; ticks alone never leave Idle or Terminated-Collision.
C2_PhaseChangesOnlyOnEvents ==
    LET before == Phase(last.pre)
        after == Phase(sim)
    IN /\ before # after =>
            \/ before = "Idle" /\ after = "Running" /\ last.op = "launch"
            \/ before = "Running" /\ after = "Terminated-Collision"
                  /\ last.op = "explosion_end"
            \/ after = "Idle" /\ last.op = "reset"
       /\ (last.op = "launch" /\ before \in {"Running", "Terminated-Collision"})
            => sim = last.pre
       /\ (last.op \in TickOps /\ before \in {"Idle", "Terminated-Collision"})
            => after = before

\* C3: an edit of the altitude field or of a velocity field never changes the
\* satellite's position or velocity.
C3_EditsKeepState ==
    last.op \in EditOps =>
        /\ sim.satellite_pos = last.pre.satellite_pos
        /\ sim.satellite_velocity = last.pre.satellite_velocity

\* C4: an edit whose text is not a number changes neither the position, the
\* velocity, the phase nor the displayed report.
C4_BadTextIgnored ==
    (last.op \in EditOps /\ ~last.arg.num) =>
        /\ sim.satellite_pos = last.pre.satellite_pos
        /\ sim.satellite_velocity = last.pre.satellite_velocity
        /\ Phase(sim) = Phase(last.pre)
        /\ sim.running = last.pre.running
        /\ sim.orbital_info = last.pre.orbital_info

C4_Witness ==
    /\ last.op = "edit_velocity"
    /\ ~last.arg.num
    /\ sim.running
    /\ nsteps > 0

\* C5: after a tick that does a physics step, the displayed report is the
\* analysis of the position and velocity after the step.
C5_ReportFollowsTick ==
    last.op = "tick_physics" =>
        sim.orbital_info = orbital_info_text(sim.satellite_pos, sim.satellite_velocity)

\* C6 as stated: for r >= R and a speed above the escape speed, the specific
\* energy is positive and the orbit type is Hyperbolic.
C6_AboveEscapeIsHyperbolic ==
    LET info == sim.orbital_info
        v2 == Dot(sim.satellite_velocity, sim.satellite_velocity)
    IN (info.r >= EARTH_RADIUS /\ v2 > LongDiv(2 * GM6, info.r, 6)) =>
          /\ info.energy > 0
          /\ info.orbit_type = "Hyperbolic (Escape)"

\* C6 amended: for r >= R and a speed above the escape speed, the specific
\* energy is positive; the orbit type is Hyperbolic when the energy is at
\* least 100 J/kg and Near-Parabolic below that.
C6_AboveEscapeIsBanded ==
    LET info == sim.orbital_info
        v2 == Dot(sim.satellite_velocity, sim.satellite_velocity)
    IN (info.r >= EARTH_RADIUS /\ v2 > LongDiv(2 * GM6, info.r, 6)) =>
          /\ info.energy > 0
          /\ info.energy >= 200 => info.orbit_type = "Hyperbolic (Escape)"
          /\ info.energy < 200 => info.orbit_type = "Near-Parabolic"

C6_Witness ==
    LET info == sim.orbital_info
    IN /\ last.op = "edit_velocity"
       /\ info.energy > 0
       /\ info.energy < 200
       /\ info.v > info.v_escape

\* C7: a physics step maps (p, v) to v' = v + a(p)*dt and p' = p + v'*dt, with
\* a(p) pointing from p to the centre: the position moves by the new velocity.
C7_SymplecticStep ==
    last.op = "tick_physics" =>
        LET p == last.pre.satellite_pos
            v == last.pre.satellite_velocity
            a == acceleration(p)
        IN /\ \A i \in 1..3 : a[i] * p[i] <= 0
           /\ sim.satellite_velocity = VAdd(v, VScale(a, 1))
           /\ sim.satellite_pos = VAdd(p, VScale(sim.satellite_velocity, 1))

C7_Witness ==
    /\ last.op = "tick_physics"
    /\ last.pre.satellite_velocity # ZeroVector
    /\ sim.satellite_velocity # last.pre.satellite_velocity
    /\ sim.satellite_pos # VAdd(last.pre.satellite_pos, last.pre.satellite_velocity)

\* C8: the report gives a period exactly when the specific energy is negative,
\* from semi_major_axis = -G*M/(2*energy); otherwise it says not applicable.
C8_PeriodOnlyWhenBound ==
    LET info == sim.orbital_info
    IN /\ info.energy < 0 =>
            /\ info.period_display.text = "min"
            /\ info.period_display.semi_major_axis * (-info.energy) <= GM6
            /\ (info.period_display.semi_major_axis + 1) * (-info.energy) > GM6
       /\ info.energy >= 0 =>
            info.period_display = [text |-> "N/A (escape trajectory)",
                                   semi_major_axis |-> 0]

C8_Witness ==
    /\ last.op = "edit_velocity"
    /\ sim.orbital_info.energy = 0
    /\ sim.orbital_info.period_display.text = "N/A (escape trajectory)"

\* C9: after a launch at rest from a positive altitude, with no reset and no
\* edit, the first tick finds no collision, every physics step brings the
\* satellite strictly closer to the centre, and the run ends in
\* Terminated-Collision.
C9_InfallEnds ==
    /\ [](last.op = "tick_collision" => nsteps > 0)
    /\ [](last.op = "tick_physics" =>
             mag(sim.satellite_pos) < mag(last.pre.satellite_pos))
    /\ (sim.running ~> Phase(sim) = "Terminated-Collision")

C9_Witness ==
    /\ Phase(sim) = "Terminated-Collision"
    /\ nsteps > 100
    /\ sim.satellite_velocity[2] = 0

\* C10: update_physics never runs from a position with |position| <= R; a
\* launch from altitude 0, or from a negative altitude (taken as 0), ends in
\* Terminated-Collision on the first tick, with no physics step and the
\* position unchanged.
C10_CollisionGuardsPhysics ==
    /\ last.op = "tick_physics" => mag(last.pre.satellite_pos) > EARTH_RADIUS
    /\ (last.op \in {"edit_altitude", "reset"} /\ Phase(last.pre) = "Idle"
          /\ sim.altitude_input.num /\ sim.altitude_input.val = 0)
         => mag(sim.satellite_pos) = EARTH_RADIUS
    /\ (last.op = "edit_altitude" /\ last.arg.num /\ last.arg.val < 0)
         => sim.altitude_input = Str(0)
    /\ (last.op \in {"tick_collision", "tick_physics"}
          /\ mag(last.pre.satellite_pos) <= EARTH_RADIUS)
         => /\ last.op = "tick_collision"
            /\ pc = "explosion"
            /\ sim.satellite_pos = last.pre.satellite_pos
    /\ last.op = "explosion_end" =>
         /\ Phase(sim) = "Terminated-Collision"
         /\ sim.satellite_pos = last.pre.satellite_pos

C10_Witness ==
    /\ last.op = "explosion_end"
    /\ Phase(sim) = "Terminated-Collision"
    /\ nsteps = 0
    /\ sim.satellite_pos = vector(EARTH_RADIUS, 0, 0)

====
